---- MODULE Spec2Model ----
(***************************************************************************)
(* Model of ecu_modbus/apsystems_modbus.py: the APsystems device facade    *)
(* (read, write, read_all, meters), its retry loop over the Modbus client, *)
(* the batch planner of _read_all and the register codec.                  *)
(*                                                                         *)
(* Python values are records [t, neg, mag, s]: t is the Python type        *)
(* ("bool", "int", "str", "none"), an int is its sign and its magnitude as *)
(* base-65536 digits, most significant first, without leading zero digits  *)
(* (TLC's integers are 32 bits wide, the registers hold up to 64), and a   *)
(* str is its sequence of byte values.                                     *)
(***************************************************************************)
EXTENDS Integers, Sequences, FiniteSets, TLC

VARIABLES
    catalog,     \* self.registers: the ordered descriptors of the device
    retries,     \* self.retries
    mem,         \* which register image the device holds
    connected,   \* self.client.is_socket_open()
    pc,          \* position of the single caller thread
    op,          \* the facade call in progress: [kind, key, rtype]
    span,        \* _read_holding_registers' arguments, loop index and what the
                 \* loop has asked of the client so far (reads, connects)
    data,        \* what _read_holding_registers returned
    ra,          \* locals of read_all / _read_all
    results,     \* the results dict being built (sequence of <<name, value>>)
    probes,      \* meters(): the values read for the probes so far
    ret,         \* the value the call returned
    raised,      \* the exception the call raised, "none" if none
    hist,        \* history of the call in progress (see NoHist)
    meters,      \* the Meter objects the caller holds (the last meters() result)
    codec        \* input and output of a stand-alone codec call

vars == <<catalog, retries, mem, connected, pc, op, span, data, ra, results,
          probes, ret, raised, hist, meters, codec>>

---------------------------------------------------------------------------
(* Bounds of the model *)

MaxRetries == 3
MaxFields == 3
MaxBatch == 3

(* Program constants *)

DefaultRetries == 3
WordMod == 65536
SentinelUInt == 65535
SentinelInt16 == 32768
SignBit == 32768
MeterDid1 == 40188
MeterDid2 == 40362

---------------------------------------------------------------------------
(* Python values *)

PyNone == [t |-> "none", neg |-> FALSE, mag |-> <<>>, s |-> <<>>]
PyFalse == [t |-> "bool", neg |-> FALSE, mag |-> <<>>, s |-> <<>>]
PyInt(neg, mag) == [t |-> "int", neg |-> neg, mag |-> mag, s |-> <<>>]
PyStr(bytes) == [t |-> "str", neg |-> FALSE, mag |-> <<>>, s |-> bytes]
PyZero == PyInt(FALSE, <<>>)

\* bool(v): the truth value Python gives v
Truthy(v) ==
    CASE v.t = "int" -> v.mag # <<>>
      [] v.t = "str" -> v.s # <<>>
      [] OTHER -> FALSE

RECURSIVE Norm(_)
\* the magnitude of the number whose big-endian digits are ws
Norm(ws) ==
    IF ws = <<>> THEN <<>>
    ELSE IF Head(ws) = 0 THEN Norm(Tail(ws)) ELSE ws

\* the 5 bytes of str(False)
StrFalse == <<70, 97, 108, 115, 101>>

---------------------------------------------------------------------------
(* Codec: _decode_value and the pymodbus BinaryPayloadDecoder it drives.   *)
(* A decoder is [ok, regs, pos]: the registers read and the read position  *)
(* in registers (the byte pointer of the payload is 2 * pos); ok = FALSE   *)
(* stands for None, what _read_holding_registers returns on exhaustion.    *)

NoData == [ok |-> FALSE, regs |-> <<>>, pos |-> 0]
Decoder(regs) == [ok |-> TRUE, regs |-> regs, pos |-> 0]

\* RegisterDataType.<x>.name: SCALE = 4 is an alias of INT16 = 4
DTypeName(dtype) == IF dtype = "SCALE" THEN "INT16" ELSE dtype

IntTypes == {"UINT16", "UINT32", "UINT64", "INT16", "SCALE", "ACC32"}

\* one register for every number, ACC32 included
WidthOneWord(dtype, length) == IF dtype = "STRING" THEN length ELSE 1

\* number of registers the decode_* call of a data type consumes
Width(dtype, length) ==
    CASE DTypeName(dtype) \in {"UINT16", "INT16"} -> 1
      [] dtype \in {"UINT32", "ACC32"} -> 2
      [] dtype = "UINT64" -> 4
      [] OTHER -> length

SUNSPEC_NOT_IMPLEMENTED(name) ==
    CASE name = "UINT16" -> PyInt(FALSE, <<SentinelUInt>>)
      [] name = "UINT32" -> PyInt(FALSE, <<SentinelUInt, SentinelUInt>>)
      [] name = "UINT64" ->
            PyInt(FALSE, <<SentinelUInt, SentinelUInt, SentinelUInt, SentinelUInt>>)
      [] name = "INT16" -> PyInt(FALSE, <<SentinelInt16>>)
      [] name = "ACC32" -> PyZero
      [] OTHER -> PyStr(<<>>)

\* decode_16bit_int: struct ">h", two's complement
Int16Value(w) ==
    IF w >= SignBit THEN PyInt(TRUE, <<WordMod - w>>) ELSE PyInt(FALSE, Norm(<<w>>))

\* decode_<n>bit_uint: struct ">H", ">I", ">Q" over big-endian registers
UIntValue(ws) == PyInt(FALSE, Norm(ws))

RECURSIVE BytesOf(_)
\* fromRegisters: each register packed big-endian, high byte first
BytesOf(ws) ==
    IF ws = <<>> THEN <<>>
    ELSE <<Head(ws) \div 256, Head(ws) % 256>> \o BytesOf(Tail(ws))

RECURSIVE DropBytes(_, _)
DropBytes(bs, bad) ==
    IF bs = <<>> THEN <<>>
    ELSE IF Head(bs) \in bad THEN DropBytes(Tail(bs), bad)
         ELSE <<Head(bs)>> \o DropBytes(Tail(bs), bad)

\* str.rstrip(): the ASCII characters str.isspace() accepts
SpaceBytes == (9 .. 13) \cup (28 .. 32)

RECURSIVE RStrip(_)
RStrip(bs) ==
    IF bs = <<>> THEN <<>>
    ELSE IF bs[Len(bs)] \in SpaceBytes THEN RStrip(SubSeq(bs, 1, Len(bs) - 1))
         ELSE bs

\* .decode("utf-8", errors="ignore").replace("\x00", "").rstrip().  The register
\* images of the model hold no UTF-8 lead byte (194..244), so every byte above
\* 127 is an invalid sequence and is dropped.
StringValue(ws) == PyStr(RStrip(DropBytes(DropBytes(BytesOf(ws), 128 .. 255), {0})))

\* vtype(x) for the pairs the catalogs use: int on bool/int, str on bool/str
Cast(vtype, x) ==
    CASE vtype = "int" /\ x.t = "bool" -> PyZero
      [] vtype = "str" /\ x.t = "bool" -> PyStr(StrFalse)
      [] OTHER -> x

\* the registers decode_* reads at pos: payload[pointer - size : pointer]
Slice(regs, pos, n) ==
    SubSeq(regs, pos + 1, IF pos + n <= Len(regs) THEN pos + n ELSE Len(regs))

\* the decode_* call of a data type on registers ws
Decoded(ws, dtype) ==
    CASE DTypeName(dtype) = "INT16" -> Int16Value(ws[1])
      [] dtype = "STRING" -> StringValue(ws)
      [] OTHER -> UIntValue(ws)

\* decoded == SUNSPEC_NOT_IMPLEMENTED[dtype.name]
IsNotImplemented(decoded, dtype) == decoded = SUNSPEC_NOT_IMPLEMENTED(DTypeName(dtype))

\* _decode_value(data, length, dtype, vtype) on decoder [regs, pos], or on None.
\* Result: the exception ("none" if none), the value and the new position.
\* struct.unpack raises struct.error on a short slice; decode_string does not.
DecodeValue(d, length, dtype, vtype) ==
    IF ~d.ok
    THEN [exc |-> "AttributeError", val |-> PyNone, pos |-> 0]
    ELSE LET n == Width(dtype, length)
             ws == Slice(d.regs, d.pos, n)
         IN  IF dtype # "STRING" /\ Len(ws) < n
             THEN [exc |-> "struct.error", val |-> PyNone, pos |-> d.pos + n]
             ELSE LET decoded == Decoded(ws, dtype)
                  IN  [exc |-> "none",
                       val |-> IF IsNotImplemented(decoded, dtype)
                               THEN Cast(vtype, PyFalse)
                               ELSE Cast(vtype, decoded),
                       pos |-> d.pos + n]

---------------------------------------------------------------------------
(* Register catalogs.  A descriptor is the tuple of Inverter.registers:    *)
(* address, length, register class, data type, target type, batch (label   *)
(* and unit are presentation only), with the dict key as name.             *)

D(name, address, length, rtype, dtype, vtype, batch) ==
    [name |-> name, address |-> address, length |-> length, rtype |-> rtype,
     dtype |-> dtype, vtype |-> vtype, batch |-> batch]

FieldNames == <<"f1", "f2", "f3", "f4", "f5", "f6">>

\* n HOLDING UINT16 fields, two addresses apart, with batch ids b[1..n]
GenCatalog(n, b) ==
    [k \in 1 .. n |->
        D(FieldNames[k], 10 + 2 * (k - 1), 1, "HOLDING", "UINT16", "int", b[k])]

BatchCatalogs ==
    UNION {{GenCatalog(n, b) : b \in [1 .. n -> 1 .. MaxBatch]} : n \in 1 .. MaxFields}

\* one batch in address order with a gap (13..19 are not described)
SpanCatalog ==
    <<D("a", 10, 1, "HOLDING", "UINT16", "int", 1),
      D("b", 11, 2, "HOLDING", "ACC32", "int", 1),
      D("c", 20, 1, "HOLDING", "INT16", "int", 1)>>

\* the same ranges, not listed in address order
ShuffledCatalog ==
    <<D("b", 11, 2, "HOLDING", "UINT32", "int", 1),
      D("a", 10, 1, "HOLDING", "UINT16", "int", 1),
      D("c", 20, 1, "HOLDING", "SCALE", "int", 1)>>

\* a declared length (2) that is not the width UINT16 consumes (1)
WidthCatalog ==
    <<D("a", 10, 2, "HOLDING", "UINT16", "int", 1),
      D("b", 12, 1, "HOLDING", "UINT16", "int", 1),
      D("c", 13, 1, "HOLDING", "INT16", "int", 1)>>

\* descending addresses: the second decode reads past the registers read
DescendingCatalog ==
    <<D("c", 20, 1, "HOLDING", "UINT16", "int", 1),
      D("a", 10, 1, "HOLDING", "UINT16", "int", 1)>>

\* both register classes, every data type of the Inverter catalog, UINT32/64
MixedCatalog ==
    <<D("a", 10, 1, "HOLDING", "UINT16", "int", 1),
      D("i1", 30, 1, "INPUT", "UINT16", "int", 1),
      D("i2", 31, 1, "INPUT", "UINT16", "int", 1),
      D("s", 40, 3, "HOLDING", "STRING", "str", 2),
      D("e", 50, 2, "HOLDING", "ACC32", "int", 2),
      D("q", 60, 4, "HOLDING", "UINT64", "int", 3),
      D("i3", 70, 1, "INPUT", "SCALE", "int", 2)>>

\* the catalog Inverter.__init__ builds (self.registers), in its dict order
InverterCatalog ==
    <<D("c_did", 40002, 1, "HOLDING", "UINT16", "int", 1),
      D("c_length", 40003, 1, "HOLDING", "UINT16", "int", 1),
      D("c_manufacturer", 40004, 16, "HOLDING", "STRING", "str", 1),
      D("c_model", 40020, 16, "HOLDING", "STRING", "str", 1),
      D("c_version", 40044, 8, "HOLDING", "STRING", "str", 1),
      D("c_serialnumber", 40052, 16, "HOLDING", "STRING", "str", 1),
      D("c_deviceaddress", 40068, 1, "HOLDING", "UINT16", "int", 1),
      D("c_sunspec_did", 40069, 1, "HOLDING", "UINT16", "int", 2),
      D("c_sunspec_length", 40070, 1, "HOLDING", "UINT16", "int", 2),
      D("current", 40072, 1, "HOLDING", "UINT16", "int", 2),
      D("l1_current", 40073, 1, "HOLDING", "UINT16", "int", 2),
      D("current_scale", 40076, 1, "HOLDING", "SCALE", "int", 2),
      D("l1n_voltage", 40080, 1, "HOLDING", "UINT16", "int", 2),
      D("voltage_scale", 40083, 1, "HOLDING", "SCALE", "int", 2),
      D("power_ac", 40084, 1, "HOLDING", "INT16", "int", 2),
      D("power_ac_scale", 40085, 1, "HOLDING", "SCALE", "int", 2),
      D("frequency", 40086, 1, "HOLDING", "UINT16", "int", 2),
      D("frequency_scale", 40087, 1, "HOLDING", "SCALE", "int", 2),
      D("power_apparent", 40088, 1, "HOLDING", "INT16", "int", 2),
      D("power_apparent_scale", 40089, 1, "HOLDING", "SCALE", "int", 2),
      D("power_reactive", 40090, 1, "HOLDING", "INT16", "int", 2),
      D("power_reactive_scale", 40091, 1, "HOLDING", "SCALE", "int", 2),
      D("power_factor", 40092, 1, "HOLDING", "INT16", "int", 2),
      D("power_factor_scale", 40093, 1, "HOLDING", "SCALE", "int", 2),
      D("energy_total", 40094, 2, "HOLDING", "ACC32", "int", 2),
      D("energy_total_scale", 40096, 1, "HOLDING", "SCALE", "int", 2),
      D("temperature", 40103, 1, "HOLDING", "INT16", "int", 2),
      D("temperature_scale", 40107, 1, "HOLDING", "SCALE", "int", 2),
      D("status", 40108, 1, "HOLDING", "UINT16", "int", 2)>>

LayoutCatalogs ==
    {SpanCatalog, ShuffledCatalog, WidthCatalog, DescendingCatalog, MixedCatalog}

Images == {"zero", "ones", "neg", "text", "meter1", "meter2"}

\* the register at address a of the device image m (what a well-formed
\* read_holding_registers response carries)
Mem(m, a) ==
    CASE m = "zero" -> 0
      [] m = "ones" -> 65535
      [] m = "neg" -> 32768
      [] m = "text" -> 16640 + (IF a % 2 = 0 THEN 32 ELSE 0)
      [] m = "meter1" -> IF a = MeterDid1 THEN 201 ELSE 65535
      [] OTHER -> IF a = MeterDid2 THEN 203 ELSE 0

\* result.registers of a well-formed response to (address, length)
ResponseRegisters(m, address, length) == [k \in 1 .. length |-> Mem(m, address + k - 1)]

---------------------------------------------------------------------------
(* Python dicts in insertion order: sequences of <<key, value>> *)

Keys(d) == {d[k][1] : k \in 1 .. Len(d)}

\* d[key] = val
DictSet(d, key, val) ==
    IF key \in Keys(d)
    THEN [k \in 1 .. Len(d) |-> IF d[k][1] = key THEN <<key, val>> ELSE d[k]]
    ELSE Append(d, <<key, val>>)

RECURSIVE DictUpdate(_, _)
\* d.update(e)
DictUpdate(d, e) ==
    IF e = <<>> THEN d ELSE DictUpdate(DictSet(d, Head(e)[1], Head(e)[2]), Tail(e))

RECURSIVE SelectSeq2(_, _)
SelectSeq2(seq, keep) ==
    IF seq = <<>> THEN <<>>
    ELSE IF Head(seq) \in keep THEN <<Head(seq)>> \o SelectSeq2(Tail(seq), keep)
         ELSE SelectSeq2(Tail(seq), keep)

\* the descriptor of key in self.registers
Lookup(cat, key) == cat[CHOOSE k \in 1 .. Len(cat) : cat[k].name = key]

Names(cat) == {cat[k].name : k \in 1 .. Len(cat)}

---------------------------------------------------------------------------
(* Batch planner: read_all's loop and _read_all's span *)

\* {k: v for k, v in self.registers.items() if v[2] == rtype}
\* the class filter left out
ClassRegistersAll(cat, rtype) == cat

ClassRegisters(cat, rtype) ==
    SelectSeq2(cat, {cat[k] : k \in {j \in 1 .. Len(cat) : cat[j].rtype = rtype}})

\* {k: v for k, v in registers.items() if v[7] == batch}
RegisterBatch(registers, batch) ==
    SelectSeq2(registers,
        {registers[k] : k \in {j \in 1 .. Len(registers) : registers[j].batch = batch}})

\* range(1, len(registers))
BatchRange(n) == 1 .. (n - 1)

\* the emptiness test left out: every batch id in range is read
BatchNeverEmpty(rb) == FALSE

\* not register_batch
BatchIsEmpty(rb) == rb = <<>>

RECURSIVE SpanFold(_, _, _)
\* the addr_min / addr_max loop of _read_all; -1 stands for the initial False
SpanFold(rb, lo, hi) ==
    IF rb = <<>> THEN <<lo, hi>>
    ELSE LET v == Head(rb)
             lo1 == IF lo = -1 THEN v.address ELSE lo
             hi1 == IF hi = -1 THEN v.address + v.length ELSE hi
             lo2 == IF v.address < lo1 THEN v.address ELSE lo1
             hi2 == IF v.address + v.length > hi1 THEN v.address + v.length ELSE hi1
         IN  SpanFold(Tail(rb), lo2, hi2)

\* the span taken from the first and the last descriptor listed
SpanFirstLast(rb) ==
    [offset |-> rb[1].address,
     length |-> rb[Len(rb)].address + rb[Len(rb)].length - rb[1].address]

\* offset = addr_min, length = addr_max - addr_min
Span(rb) ==
    LET mm == SpanFold(rb, -1, -1)
    IN  [offset |-> mm[1], length |-> mm[2] - mm[1]]

\* no gap skipped: fields decoded back to back
SkipNone(address, offset) == 0

\* registers to skip before a field: address - offset when address > offset
SkipBefore(address, offset) == IF address > offset THEN address - offset ELSE 0

\* one iteration too many: range(self.retries + 1)
RetryRangeOffByOne(r) == 0 .. r

\* range(self.retries)
RetryRange(r) == 0 .. (r - 1)

---------------------------------------------------------------------------
(* Meter discovery *)

METER_REGISTER_OFFSETS == <<0, 174, 348>>

\* Inverter.meter_dids
MeterDids ==
    <<D("", MeterDid1, 1, "HOLDING", "UINT16", "int", 1),
      D("", MeterDid2, 1, "HOLDING", "UINT16", "int", 1)>>

\* the Inverter object: its client and unit address
Inverter == [client |-> "client", unit |-> 1]

\* Meter(offset=idx, parent=self): model = "Meter<idx + 1>", the parent's client
\* and unit, self.offset = METER_REGISTER_OFFSETS[idx], an empty catalog
Meter(idx, parent) ==
    [model |-> idx + 1, client |-> parent.client, unit |-> parent.unit,
     offset |-> METER_REGISTER_OFFSETS[idx + 1], registers |-> <<>>]

\* the Meters numbered by their rank among the truthy probes, not by probe
MetersOfDense(values) ==
    LET hit == {k \in 1 .. Len(values) : Truthy(values[k])}
    IN  [j \in 1 .. Cardinality(hit) |-> Meter(j - 1, Inverter)]

\* the dict comprehension of meters(): one Meter per truthy probe value
MetersOf(values) ==
    LET hit == {k \in 1 .. Len(values) : Truthy(values[k])}
    IN  SelectSeq2([k \in 1 .. Len(values) |-> Meter(k - 1, Inverter)],
                   {Meter(k - 1, Inverter) : k \in hit})

---------------------------------------------------------------------------
(* Codec: _encode_value and the pymodbus BinaryPayloadBuilder *)

\* the zero registers put after the number's registers, not before
PadRight(ws, n) == ws \o [k \in 1 .. (n - Len(ws)) |-> 0]

RECURSIVE PadLeft(_, _)
PadLeft(ws, n) == IF Len(ws) >= n THEN ws ELSE PadLeft(<<0>> \o ws, n)

RECURSIVE WordsOf(_)
\* to_registers: the payload bytes taken two by two, high byte first
WordsOf(bs) ==
    IF Len(bs) < 2 THEN <<>>
    ELSE <<bs[1] * 256 + bs[2]>> \o WordsOf(SubSeq(bs, 3, Len(bs)))

\* every data type written as an unsigned number of its width, none refused
EncodeValueLenient(val, dtype) ==
    [exc |-> "none", regs |-> PadLeft(val.mag, Width(dtype, 0))]

\* _encode_value(data, dtype): the exception ("none" if none) and the registers.
\* struct.pack raises struct.error on a number outside the format's range;
\* build() pads an odd number of bytes with one NUL.
EncodeValue(val, dtype) ==
    LET name == DTypeName(dtype)
        width == Width(dtype, 0)
    IN  CASE name \in {"UINT16", "UINT32", "UINT64"} ->
                IF val.neg \/ Len(val.mag) > width
                THEN [exc |-> "struct.error", regs |-> <<>>]
                ELSE [exc |-> "none", regs |-> PadLeft(val.mag, width)]
          [] name = "INT16" ->
                IF Len(val.mag) > 1
                   \/ (val.mag # <<>> /\ val.mag[1] > SignBit)
                   \/ (val.mag = <<SignBit>> /\ ~val.neg)
                THEN [exc |-> "struct.error", regs |-> <<>>]
                ELSE [exc |-> "none",
                      regs |-> IF val.mag = <<>> THEN <<0>>
                               ELSE IF val.neg THEN <<WordMod - val.mag[1]>>
                               ELSE val.mag]
          [] name = "STRING" ->
                [exc |-> "none",
                 regs |-> WordsOf(IF Len(val.s) % 2 = 1 THEN val.s \o <<0>> ELSE val.s)]
          [] OTHER -> [exc |-> "NotImplementedError", regs |-> <<>>]

\* the values the model passes to write(): by the field's target type
WriteValues(vtype) ==
    IF vtype = "str" THEN {PyStr(<<65>>), PyStr(<<65, 66>>)}
    ELSE {PyZero, PyInt(FALSE, <<1>>), PyInt(FALSE, <<SentinelUInt>>),
          PyInt(FALSE, <<1, 0>>), PyInt(TRUE, <<1>>)}

---------------------------------------------------------------------------
(* The facade as a state machine: one synchronous caller *)

NoOp == [kind |-> "none", key |-> "", rtype |-> ""]
\* healthy: every connect() of the loop succeeded and every response was well-formed
NoSpan == [addr |-> 0, len |-> 0, i |-> 0, batch |-> 0, reads |-> 0, connects |-> 0,
           healthy |-> TRUE]
NoRa == [batch |-> 0, idx |-> 0, offset |-> 0, part |-> <<>>]
NoRet == [kind |-> "none", items |-> <<>>]
\* batches: the batch ids a client read was issued for, in order of first read;
\* outcome: per call of _read_holding_registers, whether it returned the
\* registers ("ok") or None ("fail");
\* dec: per field decoded in the current batch, the decoder position it was
\* decoded at; spans: calls of _read_holding_registers; writes: client writes
NoHist == [batches |-> <<>>, outcome |-> <<>>, dec |-> <<>>, spans |-> 0, writes |-> 0]
NoCodec == [dtype |-> "", vtype |-> "", length |-> 0, regs |-> <<>>, done |-> FALSE,
            exc |-> "none", val |-> PyNone,
            encoded |-> FALSE, encExc |-> "none", enc |-> <<>>]

\* Init: the object after __init__; the client is constructed but not connected
Init ==
    /\ \/ catalog \in LayoutCatalogs /\ mem \in Images
       \/ catalog \in BatchCatalogs /\ mem = "zero"
       \/ catalog = InverterCatalog /\ mem = "text"
    /\ retries \in (1 .. MaxRetries) \cup {DefaultRetries}
    /\ connected = FALSE
    /\ pc = "idle"
    /\ op = NoOp
    /\ span = NoSpan
    /\ data = NoData
    /\ ra = NoRa
    /\ results = <<>>
    /\ probes = <<>>
    /\ ret = NoRet
    /\ raised = "none"
    /\ hist = NoHist
    /\ meters = {}
    /\ codec = NoCodec

Config == <<catalog, retries, mem, codec>>

\* where _read_holding_registers returns to
AfterRhr ==
    CASE op.kind = "read" -> "read_ret"
      [] op.kind = "read_all" -> "ra_data"
      [] OTHER -> "probe_ret"

\* the loop index carried over from the span read before
StartReadSharedBudget(address, length, batch) ==
    /\ span' = [addr |-> address, len |-> length, i |-> span.i, batch |-> batch,
                reads |-> 0, connects |-> 0, healthy |-> TRUE]
    /\ hist' = [hist EXCEPT !.spans = @ + 1, !.dec = <<>>]
    /\ pc' = "rhr"

\* the call of _read_holding_registers(address, length)
StartRead(address, length, batch) ==
    /\ span' = [addr |-> address, len |-> length, i |-> 0, batch |-> batch,
                reads |-> 0, connects |-> 0, healthy |-> TRUE]
    /\ hist' = [hist EXCEPT !.spans = @ + 1, !.dec = <<>>]
    /\ pc' = "rhr"

\* a return value that is a dict
Dict(items) == [kind |-> "dict", items |-> items]

(* _read_holding_registers: one action per loop iteration *)

\* history: the batch id of a span's first client read
ReadLogged(batches, sp) == IF sp.reads = 0 THEN Append(batches, sp.batch) ELSE batches

\* not self.connected(): self.connect(), sleep, continue
RhrReconnect ==
    /\ pc = "rhr" /\ span.i \in RetryRange(retries) /\ ~connected
    /\ connected' \in BOOLEAN
    /\ span' = [span EXCEPT !.i = @ + 1, !.connects = @ + 1,
                            !.healthy = @ /\ connected']
    /\ UNCHANGED <<Config, meters, pc, op, data, ra, results, probes, ret, raised, hist>>

\* a ReadHoldingRegistersResponse with exactly `length` registers
RhrReadOk ==
    /\ pc = "rhr" /\ span.i \in RetryRange(retries) /\ connected
    /\ span' = [span EXCEPT !.reads = @ + 1]
    /\ hist' = [hist EXCEPT !.batches = ReadLogged(@, span),
                            !.outcome = Append(@, "ok")]
    /\ data' = Decoder(ResponseRegisters(mem, span.addr, span.len))
    /\ pc' = AfterRhr
    /\ UNCHANGED <<Config, meters, connected, op, ra, results, probes, ret, raised>>

\* the read issued without the connectivity check
RhrReadBadUnchecked ==
    /\ pc = "rhr" /\ span.i \in RetryRange(retries)
    /\ connected' \in BOOLEAN
    /\ span' = [span EXCEPT !.i = @ + 1, !.reads = @ + 1, !.healthy = FALSE]
    /\ hist' = [hist EXCEPT !.batches = ReadLogged(@, span)]
    /\ UNCHANGED <<Config, meters, pc, op, data, ra, results, probes, ret, raised>>

\* another kind of response, or a wrong register count: continue.  The client may
\* have closed its socket on the failure.
RhrReadBad ==
    /\ pc = "rhr" /\ span.i \in RetryRange(retries) /\ connected
    /\ connected' \in BOOLEAN
    /\ span' = [span EXCEPT !.i = @ + 1, !.reads = @ + 1, !.healthy = FALSE]
    /\ hist' = [hist EXCEPT !.batches = ReadLogged(@, span)]
    /\ UNCHANGED <<Config, meters, pc, op, data, ra, results, probes, ret, raised>>

\* the loop ran out: return None
RhrExhausted ==
    /\ pc = "rhr" /\ span.i \notin RetryRange(retries)
    /\ data' = NoData
    /\ hist' = [hist EXCEPT !.outcome = Append(@, "fail")]
    /\ pc' = AfterRhr
    /\ UNCHANGED <<Config, meters, connected, op, span, ra, results, probes, ret, raised>>

(* read(key) and _read *)

\* read(key) up to the call of _read_holding_registers.  An INPUT descriptor
\* calls self._read_input_registers, which the class does not define: the
\* AttributeError is caught by _read, which returns False.
CallRead(key) ==
    /\ pc = "idle"
    /\ op' = [kind |-> "read", key |-> key, rtype |-> ""]
    /\ IF key \notin Names(catalog)
       THEN /\ raised' = "KeyError" /\ pc' = "done"
            /\ UNCHANGED <<span, ret, hist>>
       ELSE IF Lookup(catalog, key).rtype = "INPUT"
       THEN /\ ret' = Dict(<<<<key, PyFalse>>>>) /\ pc' = "done"
            /\ UNCHANGED <<span, raised, hist>>
       ELSE /\ StartRead(Lookup(catalog, key).address, Lookup(catalog, key).length, 0)
            /\ UNCHANGED <<ret, raised>>
    /\ UNCHANGED <<Config, meters, connected, data, ra, results, probes>>

\* _read after _read_holding_registers returned: _decode_value, with the
\* AttributeError of decoding None caught and turned into False
ReadReturn ==
    /\ pc = "read_ret"
    /\ LET v == Lookup(catalog, op.key)
           r == DecodeValue(data, v.length, v.dtype, v.vtype)
       IN  CASE r.exc = "none" ->
                    /\ ret' = Dict(<<<<op.key, r.val>>>>) /\ UNCHANGED raised
             [] r.exc = "AttributeError" ->
                    /\ ret' = Dict(<<<<op.key, PyFalse>>>>) /\ UNCHANGED raised
             [] OTHER -> /\ raised' = r.exc /\ UNCHANGED ret
    /\ pc' = "done"
    /\ UNCHANGED <<Config, meters, connected, op, span, data, ra, results, probes, hist>>

(* read_all(rtype) and _read_all *)

CallReadAll(rtype) ==
    /\ pc = "idle"
    /\ op' = [kind |-> "read_all", key |-> "", rtype |-> rtype]
    /\ ra' = [NoRa EXCEPT !.batch = 1]
    /\ results' = <<>>
    /\ pc' = "ra_loop"
    /\ UNCHANGED <<Config, meters, connected, span, data, probes, ret, raised, hist>>

\* the head of read_all's loop: the range is exhausted or the batch is empty
\* (break): return results; else _read_all computes the span and reads it.  For
\* INPUT _read_all calls the undefined self._read_input_registers, and nothing
\* catches the AttributeError.
RaNext ==
    /\ pc = "ra_loop"
    /\ LET registers == ClassRegisters(catalog, op.rtype)
           rb == RegisterBatch(registers, ra.batch)
       IN  IF ra.batch \notin BatchRange(Len(registers)) \/ BatchIsEmpty(rb)
           THEN /\ ret' = Dict(results) /\ pc' = "done"
                /\ UNCHANGED <<span, ra, raised, hist>>
           ELSE IF op.rtype = "INPUT"
           THEN /\ raised' = "AttributeError" /\ pc' = "done"
                /\ UNCHANGED <<span, ra, ret, hist>>
           ELSE /\ StartRead(Span(rb).offset, Span(rb).length, ra.batch)
                /\ ra' = [ra EXCEPT !.idx = 1, !.offset = Span(rb).offset, !.part = <<>>]
                /\ UNCHANGED <<ret, raised>>
    /\ UNCHANGED <<Config, meters, connected, op, data, results, probes>>

\* a failed batch ends read_all instead of being skipped
RaNoDataAbort ==
    /\ pc = "ra_data" /\ ~data.ok
    /\ ret' = Dict(results)
    /\ pc' = "done"
    /\ UNCHANGED <<Config, meters, connected, op, span, data, ra, results, probes, raised, hist>>

\* if not data: return results (empty); read_all merges nothing and goes on
RaNoData ==
    /\ pc = "ra_data" /\ ~data.ok
    /\ ra' = [ra EXCEPT !.batch = @ + 1]
    /\ pc' = "ra_loop"
    /\ UNCHANGED <<Config, meters, connected, op, span, data, results, probes, ret, raised,
                   hist>>

\* one iteration of _read_all's decode loop: skip the gap, decode, advance
RaField ==
    /\ pc = "ra_data" /\ data.ok
    /\ LET rb == RegisterBatch(ClassRegisters(catalog, op.rtype), ra.batch)
       IN  /\ ra.idx <= Len(rb)
           /\ LET v == rb[ra.idx]
                  skip == SkipBefore(v.address, ra.offset)
                  at == [data EXCEPT !.pos = @ + skip]
                  r == DecodeValue(at, v.length, v.dtype, v.vtype)
              IN  /\ hist' = [hist EXCEPT !.dec = Append(@,
                                 [batch |-> ra.batch, name |-> v.name, pos |-> at.pos,
                                  address |-> v.address, base |-> span.addr])]
                  /\ IF r.exc = "none"
                     THEN /\ ra' = [ra EXCEPT !.idx = @ + 1,
                                              !.offset = @ + skip + v.length,
                                              !.part = DictSet(@, v.name, r.val)]
                          /\ data' = [at EXCEPT !.pos = r.pos]
                          /\ UNCHANGED <<pc, raised>>
                     ELSE /\ raised' = r.exc /\ pc' = "done"
                          /\ UNCHANGED <<ra, data>>
    /\ UNCHANGED <<Config, meters, connected, op, span, results, probes, ret>>

\* _read_all returns its dict; results.update(...); next batch
RaBatchDone ==
    /\ pc = "ra_data" /\ data.ok
    /\ ra.idx > Len(RegisterBatch(ClassRegisters(catalog, op.rtype), ra.batch))
    /\ results' = DictUpdate(results, ra.part)
    /\ ra' = [ra EXCEPT !.batch = @ + 1]
    /\ pc' = "ra_loop"
    /\ UNCHANGED <<Config, meters, connected, op, span, data, probes, ret, raised, hist>>

(* meters() *)

CallMeters ==
    /\ pc = "idle"
    /\ op' = [kind |-> "meters", key |-> "", rtype |-> ""]
    /\ probes' = <<>>
    /\ StartRead(MeterDids[1].address, MeterDids[1].length, 0)
    /\ UNCHANGED <<Config, meters, connected, data, ra, results, ret, raised>>

\* _read of one probe returned: the next probe, or the dict of Meters
ProbeReturn ==
    /\ pc = "probe_ret"
    /\ LET v == MeterDids[Len(probes) + 1]
           r == DecodeValue(data, v.length, v.dtype, v.vtype)
           vals == Append(probes, IF r.exc = "none" THEN r.val ELSE PyFalse)
       IN  /\ probes' = vals
           /\ IF Len(vals) < Len(MeterDids)
              THEN /\ StartRead(MeterDids[Len(vals) + 1].address,
                                MeterDids[Len(vals) + 1].length, 0)
                   /\ UNCHANGED ret
              ELSE /\ ret' = [kind |-> "meters", items |-> MetersOf(vals)]
                   /\ pc' = "done"
                   /\ UNCHANGED <<span, hist>>
    /\ UNCHANGED <<Config, meters, connected, op, data, ra, results, raised>>

(* write(key, data), connect(), disconnect() *)

\* the register class not checked
WritableAny(rtype) == TRUE

\* rtype == RegisterType.HOLDING in _write
Writable(rtype) == rtype = "HOLDING"

\* write(key, val): the lookup, the class check, _encode_value, then one
\* client.write_registers whose answer is returned as it is.  A client that is
\* not connected connects first and raises ConnectionException if it cannot.
CallWrite(key, val) ==
    /\ pc = "idle"
    /\ op' = [kind |-> "write", key |-> key, rtype |-> ""]
    /\ pc' = "done"
    /\ IF key \notin Names(catalog)
       THEN /\ raised' = "KeyError" /\ UNCHANGED <<ret, hist, connected>>
       ELSE LET v == Lookup(catalog, key)
                e == EncodeValue(val, v.dtype)
            IN  IF ~Writable(v.rtype)
                THEN /\ raised' = "NotImplementedError"
                     /\ UNCHANGED <<ret, hist, connected>>
                ELSE IF e.exc # "none"
                THEN /\ raised' = e.exc /\ UNCHANGED <<ret, hist, connected>>
                ELSE /\ hist' = [hist EXCEPT !.writes = @ + 1]
                     /\ \E answer \in {"ack", "nack", "ConnectionException"} :
                           /\ answer = "ConnectionException" => ~connected
                           /\ connected' = IF answer = "ack" THEN TRUE
                                           ELSE IF answer = "nack" THEN connected
                                           ELSE FALSE
                           /\ IF answer = "ConnectionException"
                              THEN raised' = answer /\ UNCHANGED ret
                              ELSE /\ ret' = [kind |-> answer, items |-> <<>>]
                                   /\ UNCHANGED raised
    /\ UNCHANGED <<Config, meters, span, data, ra, results, probes>>

\* connect(): self.client.connect()
CallConnect ==
    /\ pc = "idle"
    /\ connected' \in (IF connected THEN {TRUE} ELSE BOOLEAN)
    /\ UNCHANGED <<Config, meters, pc, op, span, data, ra, results, probes, ret, raised, hist>>

\* disconnect(): self.client.close()
CallDisconnect ==
    /\ pc = "idle" /\ connected
    /\ connected' = FALSE
    /\ UNCHANGED <<Config, meters, pc, op, span, data, ra, results, probes, ret, raised, hist>>

(* The same facade on a discovered Meter: its registers are empty and its    *)
(* client is the parent's.                                                  *)

MeterKinds == {"meter_read", "meter_read_all", "meter_write", "meter_connect",
               "meter_disconnect"}

MeterOp(kind, key, rtype) ==
    /\ pc = "idle"
    /\ op' = [kind |-> kind, key |-> key, rtype |-> rtype]
    /\ pc' = "done"
    /\ UNCHANGED <<Config, meters, span, data, ra, results, probes, hist>>

\* m.read(key): self.registers[key] of an empty dict
MeterRead(m, key) ==
    /\ MeterOp("meter_read", key, "")
    /\ key \notin Names(m.registers)
    /\ raised' = "KeyError"
    /\ UNCHANGED <<ret, connected>>

\* m.write(key, val): self.registers[key] of an empty dict
MeterWrite(m, key) ==
    /\ MeterOp("meter_write", key, "")
    /\ key \notin Names(m.registers)
    /\ raised' = "KeyError"
    /\ UNCHANGED <<ret, connected>>

\* m.read_all(rtype): range(1, len(registers)) of an empty dict has no batch
MeterReadAll(m, rtype) ==
    /\ MeterOp("meter_read_all", "", rtype)
    /\ BatchRange(Len(ClassRegisters(m.registers, rtype))) = {}
    /\ ret' = Dict(<<>>)
    /\ UNCHANGED <<raised, connected>>

\* m.connect(): self.client.connect() on the parent's client
MeterConnect(m) ==
    /\ MeterOp("meter_connect", "", "")
    /\ m.client = Inverter.client
    /\ connected' \in (IF connected THEN {TRUE} ELSE BOOLEAN)
    /\ UNCHANGED <<ret, raised>>

\* m.disconnect(): self.client.close() on the parent's client
MeterDisconnect(m) ==
    /\ MeterOp("meter_disconnect", "", "")
    /\ m.client = Inverter.client
    /\ connected' = FALSE
    /\ UNCHANGED <<ret, raised>>

\* the call is over: the caller takes the value or the exception
Return ==
    /\ pc = "done"
    /\ pc' = "idle"
    /\ op' = NoOp /\ span' = NoSpan /\ data' = NoData /\ ra' = NoRa
    /\ results' = <<>> /\ probes' = <<>> /\ ret' = NoRet /\ raised' = "none"
    /\ hist' = NoHist
    /\ meters' = IF ret.kind = "meters"
                 THEN {ret.items[k] : k \in 1 .. Len(ret.items)} ELSE meters
    /\ UNCHANGED <<Config, connected>>

Next ==
    \/ \E key \in Names(catalog) \cup {"nokey"} : CallRead(key)
    \/ ReadReturn
    \/ \E rtype \in {"HOLDING", "INPUT"} : CallReadAll(rtype)
    \/ RaNext
    \/ RaNoData
    \/ RaField
    \/ RaBatchDone
    \/ CallMeters
    \/ ProbeReturn
    \/ \E key \in Names(catalog) \cup {"nokey"} :
          \E val \in WriteValues(IF key \in Names(catalog)
                                 THEN Lookup(catalog, key).vtype ELSE "int") :
             CallWrite(key, val)
    \/ CallConnect
    \/ CallDisconnect
    \/ RhrReconnect
    \/ RhrReadOk
    \/ RhrReadBad
    \/ RhrExhausted
    \/ \E m \in meters : \E key \in Names(catalog) \cup {"nokey"} : MeterRead(m, key)
    \/ \E m \in meters : \E key \in Names(catalog) \cup {"nokey"} : MeterWrite(m, key)
    \/ \E m \in meters : \E rtype \in {"HOLDING", "INPUT"} : MeterReadAll(m, rtype)
    \/ \E m \in meters : MeterConnect(m)
    \/ \E m \in meters : MeterDisconnect(m)
    \/ Return

Spec == Init /\ [][Next]_vars

---------------------------------------------------------------------------
(* The codec on its own: _decode_value applied to every register pattern   *)
(* over CodecWords, for each data type with the target type the catalogs   *)
(* pair it with.                                                           *)

MaxStrLen == 2

CodecWords == {0, 1, 32767, 32768, 65535, 16672}

RECURSIVE Patterns(_)
\* the register sequences of length n over CodecWords
Patterns(n) ==
    IF n = 0 THEN {<<>>}
    ELSE {<<w>> \o p : w \in CodecWords, p \in Patterns(n - 1)}

CodecInputs ==
    UNION {{[dtype |-> dt, vtype |-> "int", length |-> Width(dt, 0), regs |-> p,
                  done |-> FALSE, exc |-> "none", val |-> PyNone,
                  encoded |-> FALSE, encExc |-> "none", enc |-> <<>>] :
                    p \in Patterns(Width(dt, 0))} : dt \in IntTypes}
    \cup
    UNION {{[dtype |-> "STRING", vtype |-> "str", length |-> n, regs |-> p,
                  done |-> FALSE, exc |-> "none", val |-> PyNone,
                  encoded |-> FALSE, encExc |-> "none", enc |-> <<>>] :
                    p \in Patterns(n)} : n \in 1 .. MaxStrLen}

InitCodec ==
    /\ catalog = SpanCatalog /\ mem = "zero" /\ retries = DefaultRetries
    /\ connected = FALSE /\ pc = "idle" /\ op = NoOp /\ span = NoSpan
    /\ data = NoData /\ ra = NoRa /\ results = <<>> /\ probes = <<>>
    /\ ret = NoRet /\ raised = "none" /\ hist = NoHist /\ meters = {}
    /\ codec \in CodecInputs

\* _decode_value on a decoder positioned at the start of the registers
CodecDecode ==
    /\ ~codec.done
    /\ LET r == DecodeValue(Decoder(codec.regs), codec.length, codec.dtype, codec.vtype)
       IN  codec' = [codec EXCEPT !.done = TRUE, !.exc = r.exc, !.val = r.val]
    /\ UNCHANGED <<catalog, retries, mem, connected, pc, op, span, data, ra, results,
                   probes, ret, raised, hist, meters>>

\* _encode_value on the value _decode_value returned
CodecEncode ==
    /\ codec.done /\ codec.exc = "none" /\ ~codec.encoded
    /\ LET e == EncodeValue(codec.val, codec.dtype)
       IN  codec' = [codec EXCEPT !.encoded = TRUE, !.encExc = e.exc, !.enc = e.regs]
    /\ UNCHANGED <<catalog, retries, mem, connected, pc, op, span, data, ra, results,
                   probes, ret, raised, hist, meters>>

NextCodec == CodecDecode \/ CodecEncode

SpecCodec == InitCodec /\ [][NextCodec]_vars

---------------------------------------------------------------------------
(* Claims about the codec (checked under SpecCodec) *)

\* the documented sentinel bit pattern of an integer data type, as registers
SentinelPattern(dtype) ==
    CASE dtype = "UINT16" -> <<65535>>
      [] dtype = "UINT32" -> <<65535, 65535>>
      [] dtype = "UINT64" -> <<65535, 65535, 65535, 65535>>
      [] dtype \in {"INT16", "SCALE"} -> <<32768>>
      [] dtype = "ACC32" -> <<0, 0>>
      [] OTHER -> [k \in 1 .. codec.length |-> 0]

\* the integer a register pattern encodes: two's complement for INT16/SCALE,
\* most significant register first for the unsigned types
ExactInteger(dtype, regs) ==
    IF dtype \in {"INT16", "SCALE"} /\ regs[1] >= 32768
    THEN PyInt(TRUE, <<65536 - regs[1]>>)
    ELSE PyInt(FALSE, Norm(regs))

\* the absent value of a target type: vtype(False)
Absent(vtype) == Cast(vtype, PyFalse)

\* C4: for every integer data type, decoding the registers that hold the type's
\* documented sentinel pattern yields the absent value, and decoding any other
\* pattern yields exactly the integer the pattern encodes.
C4_SentinelThenAbsentElseExact ==
    (codec.done /\ codec.dtype \in IntTypes) =>
        /\ codec.exc = "none"
        /\ IF codec.regs = SentinelPattern(codec.dtype)
           THEN codec.val = Absent(codec.vtype)
           ELSE codec.val = ExactInteger(codec.dtype, codec.regs)

\* a register pattern that is the sentinel of its data type; for STRING, whose
\* sentinel is the empty string, every pattern holding no text
IsSentinelPattern(dtype, regs) ==
    IF dtype = "STRING" THEN StringValue(regs).s = <<>>
    ELSE regs = SentinelPattern(dtype)

\* C5: no register pattern other than the sentinel pattern (in particular the
\* all-zero register) decodes to the value the sentinel pattern decodes to.
C5_SentinelDistinguishable ==
    (codec.done /\ ~IsSentinelPattern(codec.dtype, codec.regs)) =>
        codec.val # DecodeValue(Decoder(SentinelPattern(codec.dtype)), codec.length,
                                codec.dtype, codec.vtype).val

---------------------------------------------------------------------------
(* Claims about the facade (checked under Spec) *)

\* the call in progress issued no transport operation
NoTransportOp ==
    /\ hist.spans = 0 /\ hist.writes = 0
    /\ span.reads = 0 /\ span.connects = 0

\* the return value is the one-entry dict {key: a falsy value}
ReturnsFalsy(key) ==
    /\ ret.kind = "dict" /\ Len(ret.items) = 1
    /\ ret.items[1][1] = key /\ ~Truthy(ret.items[1][2])

\* a finished read(key) of a HOLDING field during which every connectivity check
\* found the client connected and every response was short or malformed
ReadAllMalformed ==
    /\ pc = "done" /\ op.kind = "read"
    /\ op.key \in Names(catalog) /\ Lookup(catalog, op.key).rtype = "HOLDING"
    /\ span.connects = 0 /\ hist.outcome = <<"fail">>

\* C1: with a transport that stays connected and answers every read with a short
\* or malformed response, read(name) on a HOLDING field issues exactly `retries`
\* transport reads, then returns {name: falsy value} and raises no error.
C1_RetryExhaustion ==
    ReadAllMalformed =>
        /\ span.reads = retries
        /\ raised = "none"
        /\ ReturnsFalsy(op.key)

C1_Witness == ReadAllMalformed /\ retries = DefaultRetries /\ span.reads = DefaultRetries

\* the descriptors of a batch as the decode loop needs them: in ascending address
\* order, not overlapping, each declared length the width its data type consumes
BatchWellFormed(rb) ==
    /\ \A k \in 1 .. Len(rb) : Width(rb[k].dtype, rb[k].length) = rb[k].length
    /\ \A k \in 1 .. Len(rb) - 1 : rb[k].address + rb[k].length <= rb[k + 1].address

CatalogWellFormed(cat, rtype) ==
    \A b \in 1 .. Len(cat) : BatchWellFormed(RegisterBatch(ClassRegisters(cat, rtype), b))

\* the number of batch ids read_all's loop reaches with a non-empty batch,
\* whatever the transport answers
PlannedBatches(registers) ==
    Cardinality({b \in BatchRange(Len(registers)) :
        \A j \in 1 .. b : RegisterBatch(registers, j) # <<>>})

\* C2: whatever the per-batch transport outcomes, read_all (on a catalog that
\* meets the decode loop's layout precondition) returns without raising, every
\* batch is all-or-nothing in the result, and a failed batch does not stop the
\* batches after it from being read and merged.
C2_ReadAllPartialResults ==
    (pc = "done" /\ op.kind = "read_all" /\ op.rtype = "HOLDING"
        /\ CatalogWellFormed(catalog, "HOLDING")) =>
        LET registers == ClassRegisters(catalog, "HOLDING")
        IN  /\ raised = "none" /\ ret.kind = "dict"
            /\ Len(hist.outcome) = PlannedBatches(registers)
            /\ \A b \in 1 .. Len(hist.outcome) :
                  IF hist.outcome[b] = "ok"
                  THEN Names(RegisterBatch(registers, b)) \subseteq Keys(ret.items)
                  ELSE Names(RegisterBatch(registers, b)) \cap Keys(ret.items) = {}

C2_Witness ==
    /\ pc = "done" /\ op.kind = "read_all" /\ catalog = MixedCatalog
    /\ hist.outcome = <<"ok", "fail", "ok">>
    /\ Keys(ret.items) = {"a", "q"}

\* the batch ids of the descriptors are exactly 1..B for some B >= 1
DenseBatches(registers) ==
    /\ registers # <<>>
    /\ \E B \in 1 .. Len(registers) :
          {registers[k].batch : k \in 1 .. Len(registers)} = 1 .. B

\* C3: for every catalog whose HOLDING descriptors carry dense batch ids 1..B
\* (also a catalog with a single field), read_all on a healthy transport reads
\* every group, so every HOLDING field appears in the result.
C3_EveryGroupRead ==
    (pc = "done" /\ op.kind = "read_all" /\ op.rtype = "HOLDING"
        /\ DenseBatches(ClassRegisters(catalog, "HOLDING"))
        /\ CatalogWellFormed(catalog, "HOLDING")
        /\ \A k \in 1 .. Len(hist.outcome) : hist.outcome[k] = "ok") =>
        /\ raised = "none"
        /\ Names(ClassRegisters(catalog, "HOLDING")) \subseteq Keys(ret.items)

\* C6: when a batch's descriptors are in ascending, non-overlapping address
\* order and each declared length is the width its type consumes, every field
\* is decoded at decoder position (address - span offset), gaps included, and
\* the position never moves backwards.
C6_CursorInSync ==
    op.kind = "read_all" =>
        \A k \in 1 .. Len(hist.dec) :
            LET e == hist.dec[k]
            IN  BatchWellFormed(RegisterBatch(ClassRegisters(catalog, op.rtype), e.batch))
                => /\ e.pos = e.address - e.base
                   /\ k > 1 => hist.dec[k - 1].pos <= e.pos

C6_Witness ==
    /\ op.kind = "read_all" /\ catalog = SpanCatalog
    /\ Len(hist.dec) = 3 /\ hist.dec[3].name = "c" /\ hist.dec[3].pos = 10

\* C7: write of an unknown name fails with KeyError, write of a non-HOLDING
\* field with NotImplementedError, read of an unknown name with KeyError, and
\* in each case no transport operation is issued.
C7_RejectedWithoutTransport ==
    /\ (pc = "done" /\ op.kind \in {"read", "write"} /\ op.key \notin Names(catalog))
          => (raised = "KeyError" /\ NoTransportOp)
    /\ (pc = "done" /\ op.kind = "write" /\ op.key \in Names(catalog)
          /\ Lookup(catalog, op.key).rtype # "HOLDING")
          => (raised = "NotImplementedError" /\ NoTransportOp)

C7_Witness ==
    /\ pc = "done" /\ op.kind = "write" /\ op.key = "i1"
    /\ raised = "NotImplementedError" /\ connected

\* the device answered probe k and the register holds neither 0 nor the sentinel
ProbeFound(k) ==
    /\ hist.outcome[k] = "ok"
    /\ Mem(mem, MeterDids[k].address) \notin {0, 65535}

\* C8: meters() reads both probes as single-field reads; the result holds
\* "Meter<k>" iff probe k decoded to a truthy value, bound to the k-th offset and
\* sharing the parent's client and unit; a truthy probe 1 with a sentinel probe 2
\* gives exactly one Meter, bound to the first offset.
C8_MetersDiscovery ==
    /\ (op.kind = "meters" /\ pc = "rhr") =>
          /\ span.len = 1
          /\ span.addr = IF Len(probes) = 0 THEN MeterDid1 ELSE MeterDid2
    /\ (op.kind = "meters" /\ pc = "done") =>
          /\ raised = "none" /\ ret.kind = "meters"
          /\ hist.spans = 2 /\ Len(hist.outcome) = 2
          /\ \A k \in 1 .. 2 :
                (\E j \in 1 .. Len(ret.items) : ret.items[j].model = k) <=> ProbeFound(k)
          /\ \A j \in 1 .. Len(ret.items) :
                /\ ret.items[j].offset = METER_REGISTER_OFFSETS[ret.items[j].model]
                /\ ret.items[j].client = Inverter.client
                /\ ret.items[j].unit = Inverter.unit
          /\ (mem = "meter1" /\ hist.outcome = <<"ok", "ok">>) =>
                (Len(ret.items) = 1 /\ ret.items[1].model = 1 /\ ret.items[1].offset = 0)

C8_Witness ==
    /\ op.kind = "meters" /\ pc = "done" /\ mem = "meter1"
    /\ hist.outcome = <<"ok", "ok">> /\ Len(ret.items) = 1

\* C9: read_all visits batch ids in ascending order from 1 and stops at the first
\* batch id without a descriptor of the class: the reads are for batches in
\* ascending order and none is for a batch id at or beyond an empty batch id.
C9_AscendingUntilEmpty ==
    op.kind = "read_all" =>
        LET registers == ClassRegisters(catalog, op.rtype)
        IN  /\ pc = "rhr" => span.batch = hist.spans
            /\ \A k \in 1 .. Len(hist.batches) :
                  /\ hist.batches[k] >= 1
                  /\ k > 1 => hist.batches[k - 1] < hist.batches[k]
                  /\ \A j \in 1 .. hist.batches[k] : RegisterBatch(registers, j) # <<>>

C9_Witness ==
    /\ op.kind = "read_all" /\ op.rtype = "HOLDING" /\ pc = "done"
    /\ hist.batches = <<1>>
    /\ Len(catalog) = 3
    /\ RegisterBatch(catalog, 2) = <<>>
    /\ RegisterBatch(catalog, 3) # <<>>

MinAddress(rb) ==
    CHOOSE a \in {rb[k].address : k \in 1 .. Len(rb)} :
        \A k \in 1 .. Len(rb) : a <= rb[k].address

MaxEnd(rb) ==
    CHOOSE z \in {rb[k].address + rb[k].length : k \in 1 .. Len(rb)} :
        \A k \in 1 .. Len(rb) : rb[k].address + rb[k].length <= z

\* C10: the span read for a batch has offset = min(address) and length =
\* max(address + word_length) - offset, whatever the descriptors' order:
\* (10,1), (11,2), (20,1) give offset 10 and length 11, and a batch of one
\* descriptor gives that descriptor's own range.
C10_SpanMinMax ==
    (op.kind = "read_all" /\ pc = "rhr") =>
        LET rb == RegisterBatch(ClassRegisters(catalog, op.rtype), span.batch)
        IN  /\ span.addr = MinAddress(rb)
            /\ span.len = MaxEnd(rb) - MinAddress(rb)
            /\ catalog \in {SpanCatalog, ShuffledCatalog} =>
                  (span.addr = 10 /\ span.len = 11)
            /\ Len(rb) = 1 => (span.addr = rb[1].address /\ span.len = rb[1].length)

C10_Witness ==
    /\ op.kind = "read_all" /\ pc = "rhr" /\ catalog = ShuffledCatalog
    /\ span.reads >= 1 /\ span.addr = 10 /\ span.len = 11

\* Python's ==, for the values a read returns: False == 0
PyEqual(a, b) == a = b \/ {a, b} \subseteq {PyFalse, PyZero}

\* what the device holds for a descriptor, decoded
DeviceValue(v) ==
    DecodeValue(Decoder(ResponseRegisters(mem, v.address, v.length)),
                v.length, v.dtype, v.vtype).val

\* C11: starting disconnected, with a connect() that succeeds and reads that
\* then succeed, read(name) returns the device's decoded value for every retry
\* count >= 1.
C11_ReconnectThenRead ==
    (pc = "done" /\ op.kind = "read" /\ op.key \in Names(catalog)
        /\ Lookup(catalog, op.key).rtype = "HOLDING"
        /\ span.connects >= 1 /\ span.healthy) =>
        /\ raised = "none" /\ ret.kind = "dict" /\ Len(ret.items) = 1
        /\ PyEqual(ret.items[1][2], DeviceValue(Lookup(catalog, op.key)))

\* C12: read_all on a catalog without any descriptor of the requested class
\* (an Inverter catalog without INPUT fields asked for INPUT, or a discovered
\* Meter) returns an empty mapping, raises nothing and asks nothing of the
\* transport.
C12_EmptyClassNoTransport ==
    /\ (pc = "done" /\ op.kind = "read_all"
          /\ \A k \in 1 .. Len(catalog) : catalog[k].rtype # op.rtype) =>
          (ret = Dict(<<>>) /\ raised = "none" /\ NoTransportOp)
    /\ (pc = "done" /\ op.kind = "meter_read_all") =>
          (ret = Dict(<<>>) /\ raised = "none" /\ NoTransportOp)

C12_Witness ==
    /\ pc = "done" /\ op.kind = "meter_read_all" /\ op.rtype = "HOLDING"
    /\ Len(catalog) > 0 /\ ret = Dict(<<>>) /\ connected

\* the data types _encode_value writes as integers
WritableIntTypes == {"UINT16", "UINT32", "UINT64", "INT16", "SCALE"}

\* C13: for UINT16, UINT32, UINT64 and INT16/SCALE, and every register pattern
\* x other than the type's sentinel, encode(decode(x)) = x: the same 16-bit
\* words in the same, most significant first, word order.
C13_EncodeDecodeRoundTrip ==
    (codec.encoded /\ codec.dtype \in WritableIntTypes
        /\ codec.regs # SentinelPattern(codec.dtype)) =>
        (codec.encExc = "none" /\ codec.enc = codec.regs)

C13_Witness ==
    /\ codec.encoded /\ codec.dtype = "UINT32" /\ codec.regs = <<0, 32768>>
    /\ codec.enc = <<0, 32768>>

\* a write(name, value) on a HOLDING field that reached the transport and failed
WriteFailed ==
    /\ pc = "done" /\ op.kind = "write" /\ op.key \in Names(catalog)
    /\ Lookup(catalog, op.key).rtype = "HOLDING"
    /\ hist.writes >= 1
    /\ (ret.kind = "nack" \/ raised = "ConnectionException")

\* C14: a write on a HOLDING field that meets a transport failure is retried
\* like a read, up to the retry budget, and the failure is returned only after
\* the retries are exhausted.
C14_WriteRetried ==
    WriteFailed => hist.writes = retries

\* C15: read(name) on a descriptor of class INPUT issues one single-field
\* transport read at the descriptor's address and word length, and returns the
\* decoded value when the transport answers correctly.
C15_InputFieldRead ==
    (pc = "done" /\ op.kind = "read" /\ op.key \in Names(catalog)
        /\ Lookup(catalog, op.key).rtype = "INPUT") =>
        LET v == Lookup(catalog, op.key)
        IN  /\ hist.spans = 1 /\ span.reads >= 1
            /\ span.addr = v.address /\ span.len = v.length
            /\ span.healthy =>
                  (ret.kind = "dict" /\ Len(ret.items) = 1
                      /\ PyEqual(ret.items[1][2], DeviceValue(v)))

\* C16: the connection's lifetime belongs to the parent: no operation invoked
\* on a discovered Meter, disconnect() included, takes the transport its
\* parent Inverter uses from connected to not connected.
C16_MeterLeavesTransportConnected ==
    [][(pc = "idle" /\ pc' = "done" /\ op'.kind \in MeterKinds /\ connected)
          => connected']_vars

\* a call in progress has a step to take: at each position the guards of the
\* actions of that position cover every case
CallStepEnabled ==
    CASE pc = "rhr" ->
            \/ span.i \in RetryRange(retries) /\ ~connected
            \/ span.i \in RetryRange(retries) /\ connected
            \/ span.i \notin RetryRange(retries)
      [] pc = "read_ret" -> op.key \in Names(catalog)
      [] pc = "probe_ret" -> Len(probes) + 1 \in 1 .. Len(MeterDids)
      [] pc = "ra_loop" -> ra.batch >= 1
      [] pc = "ra_data" ->
            LET rb == RegisterBatch(ClassRegisters(catalog, op.rtype), ra.batch)
            IN  \/ ~data.ok
                \/ data.ok /\ ra.idx \in 1 .. Len(rb)
                \/ data.ok /\ ra.idx > Len(rb)
      [] OTHER -> pc \in {"idle", "done"}

\* iterations _read_holding_registers has left, plus its return
RhrLeft == (retries - span.i) + 1

\* an upper bound of the steps one batch of read_all takes
BatchCost == (retries + 1) + (Len(catalog) + 1) + 2

\* an upper bound of the steps a call in progress still takes
Measure ==
    LET N == Len(catalog)
        L == N + 1 - ra.batch
        P == retries + 3
        rem == Len(MeterDids) - Len(probes) - 1
    IN  CASE pc = "idle" \/ pc = "done" -> 0
          [] pc = "read_ret" -> 1
          [] pc = "rhr" /\ op.kind = "read" -> 1 + RhrLeft
          [] pc = "probe_ret" -> rem * P + 1
          [] pc = "rhr" /\ op.kind = "meters" -> rem * P + 1 + RhrLeft
          [] pc = "ra_loop" -> (L + 1) * BatchCost
          [] pc = "rhr" /\ op.kind = "read_all" -> L * BatchCost + (N + 2) + RhrLeft
          [] OTHER -> L * BatchCost + (N + 2 - ra.idx)

\* the batches the catalog holds for the class of the read_all in progress
BatchCount ==
    Cardinality({v.batch : v \in {catalog[k] : k \in {j \in 1 .. Len(catalog) :
                                                      catalog[j].rtype = op.rtype}}})

\* the span reads a call may make
SpanLimit ==
    CASE op.kind = "read" -> 1
      [] op.kind = "meters" -> Len(MeterDids)
      [] op.kind = "read_all" -> BatchCount
      [] OTHER -> 0

AttemptBudget ==
    /\ span.reads + span.connects <= retries
    /\ pc = "rhr" => span.i = span.reads + span.connects
    /\ hist.spans <= SpanLimit
    /\ hist.spans >= 1 =>
          (hist.spans - 1) * retries + span.reads + span.connects <= retries * SpanLimit

\* C17: every read, read_all and meters call terminates (each step of a call
\* in progress lowers a natural-number measure and a step is always possible),
\* every span read counts its attempts from zero up to at most `retries`, and
\* read_all over B batches makes at most retries * B read and reconnect
\* attempts: what one batch used is not taken from the next.
C17_TerminatesWithinBudget ==
    /\ [](AttemptBudget /\ Measure >= 0 /\ CallStepEnabled)
    /\ [][(pc # "idle" /\ pc # "done") => Measure' < Measure]_vars

C17_Witness ==
    /\ op.kind = "read_all" /\ pc = "ra_data" /\ retries = DefaultRetries
    /\ hist.outcome = <<"fail", "fail">> /\ span.batch = 2
    /\ span.reads + span.connects = retries

\* C18: write(name, value) on a HOLDING field whose data type is ACC32 (not a
\* writable type) raises the unsupported-type error to the caller: no
\* transport write is issued and nothing is returned in its place.
C18_UnwritableTypeRaises ==
    (pc = "done" /\ op.kind = "write" /\ op.key \in Names(catalog)
        /\ Lookup(catalog, op.key).rtype = "HOLDING"
        /\ Lookup(catalog, op.key).dtype = "ACC32") =>
        (raised = "NotImplementedError" /\ ret = NoRet /\ NoTransportOp)

C18_Witness ==
    /\ pc = "done" /\ op.kind = "write" /\ catalog = MixedCatalog /\ op.key = "e"
    /\ raised = "NotImplementedError" /\ hist.writes = 0 /\ connected

\* a span read has just returned a decoder
SpanAnswered == pc \in {"read_ret", "probe_ret", "ra_data"} /\ data.ok

\* C19: within one span read a transport read is only issued when connected()
\* reported true (and a connect only when it reported false), and nothing is
\* asked of the transport for the span once a well-formed response has come:
\* the read attempts number the position of the first well-formed response,
\* exactly one on a healthy connected transport.
C19_ReadsOnlyConnectedStopAtFirstOk ==
    /\ [](SpanAnswered =>
            /\ span.reads = (span.i - span.connects) + 1
            /\ (span.healthy /\ span.connects = 0) => span.reads = 1)
    /\ [][/\ span'.reads > span.reads =>
                (pc = "rhr" /\ connected /\ span'.reads = span.reads + 1)
          /\ span'.connects > span.connects =>
                (pc = "rhr" /\ ~connected /\ span'.reads = span.reads)]_vars

C19_Witness ==
    /\ SpanAnswered /\ pc = "read_ret"
    /\ span.connects = 1 /\ span.reads = 2 /\ span.i = 2

\* the batch ids of a class's descriptors
BatchIds(registers) == {registers[k].batch : k \in 1 .. Len(registers)}

\* C20: the catalog Inverter ships meets the decoder's preconditions: in each
\* batch the HOLDING descriptors are in strictly ascending address order, do
\* not overlap, and declare the word length their type consumes; the batch ids
\* are dense from 1 and fewer than the fields.  So read_all on a healthy
\* transport returns every catalog field.
C20_ShippedCatalogWellFormed ==
    catalog = InverterCatalog =>
        LET registers == ClassRegisters(catalog, "HOLDING")
        IN  /\ registers = catalog
            /\ \A b \in BatchIds(registers) :
                  LET rb == RegisterBatch(registers, b)
                  IN  /\ \A k \in 1 .. Len(rb) :
                            Width(rb[k].dtype, rb[k].length) = rb[k].length
                      /\ \A k \in 1 .. Len(rb) - 1 :
                            /\ rb[k].address < rb[k + 1].address
                            /\ rb[k].address + rb[k].length <= rb[k + 1].address
            /\ DenseBatches(registers)
            /\ Cardinality(BatchIds(registers)) < Len(registers)
            /\ (pc = "done" /\ op.kind = "read_all" /\ op.rtype = "HOLDING"
                   /\ \A b \in 1 .. Len(hist.outcome) : hist.outcome[b] = "ok") =>
                  /\ raised = "none" /\ ret.kind = "dict"
                  /\ Keys(ret.items) = Names(catalog)
                  /\ Len(ret.items) = Len(catalog)

C20_Witness ==
    /\ catalog = InverterCatalog /\ pc = "done" /\ op.kind = "read_all"
    /\ op.rtype = "HOLDING" /\ hist.outcome = <<"ok", "ok">>
    /\ Len(ret.items) = Len(InverterCatalog) /\ raised = "none"

====
